---------------------------- MODULE Spec2Model ----------------------------
(***************************************************************************)
(* A model of pumpfinder: the mint-event log decoder (src/MintUtils.ts)    *)
(* and the paginate / bounded-fetch / retry / batch pipeline               *)
(* (src/pumpfinder.ts).                                                    *)
(*                                                                         *)
(* JavaScript strings are TLA+ strings, except the text decoded from bytes  *)
(* (name, symbol, uri), which is the sequence of its code points.  Byte    *)
(* buffers are sequences of 0..255.  null is the empty tuple Null; a value *)
(* that is a string or null is <<string>> or Null.  NaN and undefined in   *)
(* offset arithmetic are the value NaN.                                    *)
(***************************************************************************)
EXTENDS Integers, Sequences, FiniteSets, TLC

\* ------------------------------------------------------------------------
\* Bounds of the model.  TOTAL and BATCH_SIZE carry the source's names but
\* are scaled down (the program uses 20000 and 1000); the concurrency cap is
\* a configuration value and ranges over 1..MaxConcurrency; the account
\* history holds 0..MaxHistory signatures older than the start cursor.
\* ------------------------------------------------------------------------
TOTAL == 3

BATCH_SIZE == 2

MaxConcurrency == 2

MaxHistory == 4

\* The retry budget of extractTransactionInfo (attempt < 3).
MAX_ATTEMPTS == 3

\* The width of a public key in the event payload.
KEY_LEN == 32

\* The width of the leading identifier of the event payload.
DISCRIMINATOR_LEN == 8

\* The width of a string's length field.
LENGTH_FIELD_LEN == 4

\* U+FFFD, which the text decoder puts for bytes that are not UTF-8.
REPLACEMENT_CHARACTER == 65533

\* U+FEFF, which the text decoder drops at the start of its input.
BYTE_ORDER_MARK == 65279

\* The log sequences fed to processMintLog have up to MaxLogLines lines.
MaxLogLines == 3

\* ------------------------------------------------------------------------
\* Values
\* ------------------------------------------------------------------------
Null == <<>>

NaN == 0 - 1

Min(a, b) == IF a < b THEN a ELSE b

\* ------------------------------------------------------------------------
\* Strings
\* ------------------------------------------------------------------------
CharAt(s, k) == SubSeq(s, k, k)

StartsWith(s, p) == Len(s) >= Len(p) /\ SubSeq(s, 1, Len(p)) = p

EndsWith(s, p) == Len(s) >= Len(p) /\ SubSeq(s, Len(s) - Len(p) + 1, Len(s)) = p

\* The 0-based position of the one-character string c in alphabet, NaN if absent.
IndexIn(alphabet, c) ==
  IF \E k \in 1..Len(alphabet) : CharAt(alphabet, k) = c
  THEN (CHOOSE k \in 1..Len(alphabet) : CharAt(alphabet, k) = c) - 1
  ELSE NaN

\* String.prototype.replace(pattern, "") with a string pattern: the first
\* occurrence is removed, the string is unchanged when there is none.
ReplaceFirst(s, pat) ==
  LET hits == {k \in 1..(Len(s) - Len(pat) + 1) : SubSeq(s, k, k + Len(pat) - 1) = pat}
  IN IF hits = {} THEN s
     ELSE LET k == CHOOSE h \in hits : \A g \in hits : h <= g
          IN SubSeq(s, 1, k - 1) \o SubSeq(s, k + Len(pat), Len(s))

IsSpace(c) == c \in {" ", "\t", "\n", "\r", "\f"}

\* String.prototype.trim
Trim(s) ==
  LET keep == {k \in 1..Len(s) : ~IsSpace(CharAt(s, k))}
  IN IF keep = {} THEN ""
     ELSE SubSeq(s, CHOOSE a \in keep : \A b \in keep : a <= b,
                    CHOOSE a \in keep : \A b \in keep : a >= b)


\* ------------------------------------------------------------------------
\* Buffers (src/MintUtils.ts)
\* ------------------------------------------------------------------------
Base64Alphabet == "ABCDEFGHIJKLMNOPQRSTUVWXYZabcdefghijklmnopqrstuvwxyz0123456789+/"

Base58Alphabet == "123456789ABCDEFGHJKLMNPQRSTUVWXYZabcdefghijkmnopqrstuvwxyz"

\* The 6-bit values of the characters of s[lo..hi] that belong to the
\* alphabet, in order (Buffer.from(s, "base64") skips every other character).
RECURSIVE B64Scan(_, _, _)
B64Scan(s, lo, hi) ==
  IF lo > hi THEN <<>>
  ELSE IF lo = hi
       THEN LET v == IndexIn(Base64Alphabet, CharAt(s, lo))
            IN IF v = NaN THEN <<>> ELSE <<v>>
       ELSE LET mid == (lo + hi) \div 2
            IN B64Scan(s, lo, mid) \o B64Scan(s, mid + 1, hi)

\* The 6-bit values read from s: those before the first "=".
B64Values(s) ==
  LET pads == {k \in 1..Len(s) : CharAt(s, k) = "="}
      stop == IF pads = {} THEN Len(s)
              ELSE (CHOOSE k \in pads : \A j \in pads : k <= j) - 1
  IN B64Scan(s, 1, stop)

\* Buffer.from(data, "base64"): never throws.  Byte j (from 0) is bits
\* 8j..8j+7 of the 6-bit values laid end to end; trailing bits that do not
\* fill a byte are dropped.
Base64Decode(s) ==
  LET v == B64Values(s)
  IN [j \in 1..((Len(v) * 6) \div 8) |->
        LET bit == 8 * (j - 1)
            c == bit \div 6 + 1
            pair == v[c] * 64 + v[c + 1]
            shift == 4 - (bit % 6)
        IN (pair \div (2 ^ shift)) % 256]

\* One step of the base conversion: the little-endian base-58 digits times
\* 256 plus carry.
RECURSIVE B58Carry(_, _)
B58Carry(digits, carry) ==
  IF digits = <<>>
  THEN IF carry = 0 THEN <<>> ELSE <<carry % 58>> \o B58Carry(<<>>, carry \div 58)
  ELSE LET c == Head(digits) * 256 + carry
       IN <<c % 58>> \o B58Carry(Tail(digits), c \div 58)

RECURSIVE B58Digits(_)
B58Digits(bytes) ==
  IF bytes = <<>> THEN <<>>
  ELSE B58Carry(B58Digits(SubSeq(bytes, 1, Len(bytes) - 1)), bytes[Len(bytes)])

RECURSIVE B58Text(_)
B58Text(digits) ==
  IF digits = <<>> THEN ""
  ELSE B58Text(Tail(digits)) \o CharAt(Base58Alphabet, Head(digits) + 1)

RECURSIVE LeadingZeros(_)
LeadingZeros(bytes) ==
  IF bytes = <<>> \/ Head(bytes) # 0 THEN 0 ELSE 1 + LeadingZeros(Tail(bytes))

RECURSIVE Repeat(_, _)
Repeat(c, n) == IF n = 0 THEN "" ELSE c \o Repeat(c, n - 1)

\* bs58.encode: one "1" per leading zero byte, then the number in base 58.
Bs58Encode(bytes) ==
  LET z == LeadingZeros(bytes)
  IN Repeat("1", z) \o B58Text(B58Digits(SubSeq(bytes, z + 1, Len(bytes))))

\* The UTF-8 decoder of TextDecoder from position p (from 1) of bytes on: the
\* code points decoded.  A byte that cannot start a character, and a
\* character broken off by a byte that cannot continue it or by the end of
\* the input, each give one replacement character; the offending byte is
\* read again as a start.
RECURSIVE Utf8Scan(_, _)
Utf8Scan(bytes, p) ==
  IF p > Len(bytes) THEN <<>>
  ELSE LET b == bytes[p]
           need == IF b < 128 THEN 0
                   ELSE IF b >= 194 /\ b <= 223 THEN 1
                   ELSE IF b >= 224 /\ b <= 239 THEN 2
                   ELSE IF b >= 240 /\ b <= 244 THEN 3
                   ELSE NaN
           lower(k) == IF k = 1 /\ b = 224 THEN 160
                       ELSE IF k = 1 /\ b = 240 THEN 144 ELSE 128
           upper(k) == IF k = 1 /\ b = 237 THEN 159
                       ELSE IF k = 1 /\ b = 244 THEN 143 ELSE 191
           ok(k) == /\ p + k <= Len(bytes)
                    /\ bytes[p + k] >= lower(k)
                    /\ bytes[p + k] <= upper(k)
           good == IF need = NaN THEN 0
                   ELSE CHOOSE g \in 0..need :
                          /\ \A k \in 1..g : ok(k)
                          /\ g < need => ~ok(g + 1)
           low(k) == bytes[p + k] - 128
       IN IF need = NaN \/ good < need
          THEN <<REPLACEMENT_CHARACTER>> \o Utf8Scan(bytes, p + good + 1)
          ELSE << CASE need = 0 -> b
                    [] need = 1 -> (b - 192) * 64 + low(1)
                    [] need = 2 -> (b - 224) * 4096 + low(1) * 64 + low(2)
                    [] need = 3 -> (b - 240) * 262144 + low(1) * 4096
                                     + low(2) * 64 + low(3) >>
                 \o Utf8Scan(bytes, p + need + 1)

\* new TextDecoder("utf-8").decode(bytes): the text as its code points.  The
\* decoder is not fatal and does not ignore the byte order mark: a mark at
\* the start of the input is dropped.
Utf8Decode(bytes) ==
  LET text == Utf8Scan(bytes, 1)
  IN IF text # <<>> /\ Head(text) = BYTE_ORDER_MARK THEN Tail(text) ELSE text

\* ToIntegerOrInfinity of a slice bound: NaN becomes 0.
ToIndex(x) == IF x = NaN THEN 0 ELSE x

\* Buffer.prototype.slice(start, end) for non-negative bounds: both are
\* clamped to the length, and an end at or below the start gives no bytes.
Slice(data, start, end) ==
  LET a == Min(ToIndex(start), Len(data))
      b == Min(ToIndex(end), Len(data))
  IN IF b <= a THEN <<>> ELSE SubSeq(data, a + 1, b)

\* data[offset]: undefined (NaN in the arithmetic that follows) off the end.
ByteAt(data, offset) ==
  IF offset = NaN \/ offset >= Len(data) THEN NaN ELSE data[offset + 1]

\* Number addition with NaN.
Plus(a, b) == IF a = NaN \/ b = NaN THEN NaN ELSE a + b

readLengthPrefixedString(data, offset) ==
  LET length == ByteAt(data, offset)
      start == Plus(offset, LENGTH_FIELD_LEN)
  IN [value |-> Utf8Decode(Slice(data, start, Plus(start, length))),
      offset |-> Plus(start, length)]

\* decodeMint on the decoded buffer: the cumulative offsets of the fields.
DecodeBuffer(decoded) ==
  LET name == readLengthPrefixedString(decoded, DISCRIMINATOR_LEN)
      symbol == readLengthPrefixedString(decoded, name.offset)
      uri == readLengthPrefixedString(decoded, symbol.offset)
      o1 == uri.offset
      o2 == Plus(o1, KEY_LEN)
      o3 == Plus(o2, KEY_LEN)
  IN [name |-> name.value,
      symbol |-> symbol.value,
      uri |-> uri.value,
      mintAddress |-> Bs58Encode(Slice(decoded, o1, Plus(o1, KEY_LEN))),
      bondingCurve |-> Bs58Encode(Slice(decoded, o2, Plus(o2, KEY_LEN))),
      user |-> Bs58Encode(Slice(decoded, o3, Plus(o3, KEY_LEN)))]

decodeMint(data) == DecodeBuffer(Base64Decode(data))

dataPrefix == "Program data: G3KpTd7rY3"

programSuccessLine == "Program 6EF8rrecthR5Dkzon8Nwu78hRvfCKubJ14M5uBEwF6P success"

\* A faulty variant of ScanLogs: the success marker is paired with the first
\* data-prefixed line anywhere after it.
ScanLogsAnyLater(logs, k) ==
  LET later == {b \in k..Len(logs) :
                  /\ StartsWith(logs[b], dataPrefix)
                  /\ \E a \in k..(b - 1) : logs[a] = programSuccessLine}
  IN IF later = {} THEN Null
     ELSE LET b == CHOOSE x \in later : \A y \in later : x <= y
          IN decodeMint(Trim(ReplaceFirst(logs[b], "Program data: ")))

\* The scan of processMintLog from line k on: the first success marker that
\* is immediately followed by a data-prefixed line decides the result.
RECURSIVE ScanLogs(_, _)
ScanLogs(logs, k) ==
  IF k > Len(logs) THEN Null
  ELSE IF logs[k] = programSuccessLine
          /\ k + 1 <= Len(logs)
          /\ logs[k + 1] # ""
          /\ StartsWith(logs[k + 1], dataPrefix)
       THEN decodeMint(Trim(ReplaceFirst(logs[k + 1], "Program data: ")))
       ELSE ScanLogs(logs, k + 1)

processMintLog(logs) == ScanLogs(logs, 1)


\* ------------------------------------------------------------------------
\* Dates: new Date(ms).toISOString() and new Date(iso).getTime()
\* ------------------------------------------------------------------------
Digits == "0123456789"

\* n in decimal, left-padded with zeros to width w.
RECURSIVE Pad(_, _)
Pad(n, w) == IF w = 0 THEN "" ELSE Pad(n \div 10, w - 1) \o CharAt(Digits, (n % 10) + 1)

RECURSIVE ParseInt(_)
ParseInt(s) ==
  IF s = "" THEN 0
  ELSE ParseInt(SubSeq(s, 1, Len(s) - 1)) * 10 + IndexIn(Digits, CharAt(s, Len(s)))

\* The civil date of a day number counted from 1970-01-01.
CivilFromDays(days) ==
  LET z == days + 719468
      era == z \div 146097
      doe == z - era * 146097
      yoe == (doe - doe \div 1460 + doe \div 36524 - doe \div 146096) \div 365
      doy == doe - (365 * yoe + yoe \div 4 - yoe \div 100)
      mp == (5 * doy + 2) \div 153
      m == IF mp < 10 THEN mp + 3 ELSE mp - 9
  IN [year |-> yoe + era * 400 + (IF m <= 2 THEN 1 ELSE 0),
      month |-> m,
      day |-> doy - (153 * mp + 2) \div 5 + 1]

DaysFromCivil(year, month, day) ==
  LET y == IF month <= 2 THEN year - 1 ELSE year
      era == y \div 400
      yoe == y - era * 400
      doy == (153 * (IF month > 2 THEN month - 3 ELSE month + 9) + 2) \div 5 + day - 1
      doe == yoe * 365 + yoe \div 4 - yoe \div 100 + doy
  IN era * 146097 + doe - 719468

\* Date.prototype.toISOString of a time value in milliseconds (>= 0).
ToISOString(ms) ==
  LET date == CivilFromDays(ms \div 86400000)
      rest == ms % 86400000
  IN Pad(date.year, 4) \o "-" \o Pad(date.month, 2) \o "-" \o Pad(date.day, 2)
       \o "T" \o Pad(rest \div 3600000, 2)
       \o ":" \o Pad((rest \div 60000) % 60, 2)
       \o ":" \o Pad((rest \div 1000) % 60, 2)
       \o "." \o Pad(rest % 1000, 3) \o "Z"

\* new Date(iso).getTime() of a string in the toISOString format.
GetTime(iso) ==
  DaysFromCivil(ParseInt(SubSeq(iso, 1, 4)), ParseInt(SubSeq(iso, 6, 7)),
                ParseInt(SubSeq(iso, 9, 10))) * 86400000
    + ParseInt(SubSeq(iso, 12, 13)) * 3600000
    + ParseInt(SubSeq(iso, 15, 16)) * 60000
    + ParseInt(SubSeq(iso, 18, 19)) * 1000
    + ParseInt(SubSeq(iso, 21, 23))

\* ------------------------------------------------------------------------
\* The ledger: what getParsedTransaction can return for a signature.
\* A transaction has meta.logMessages (Null when absent) and blockTime
\* (Null when absent, <<seconds>> otherwise).  Block times stay below 2^31
\* milliseconds.
\* ------------------------------------------------------------------------
MintLineA ==
  "Program data: G3KpTd7rY3YDAAAAQ2F0AwAAAENBVAEAAAB1BwcHBwcHBwcHBwcHBwcHBwcHBwcHBwcHBwcHBwbBS68AAAMDAwMDAwMDAwMDAwMDAwMDAwMDAwMDAwMDAwMDAwECAwQFBgcICQoLDA0ODxAREhMUFRYXGBkaGxwdHh8g"

MintLineB ==
  "Program data: G3KpTd7rY3YDAAAARG9nAwAAAERPRwEAAAB2CQkJCQkJCQkJCQkJCQkJCQkJCQkJCQkJCQkJCQht9X8AAAMDAwMDAwMDAwMDAwMDAwMDAwMDAwMDAwMDAwMDAwECAwQFBgcICQoLDA0ODxAREhMUFRYXGBkaGxwdHh8g"

MintLineOther ==
  "Program data: G3KpTd7rY3YDAAAAT3dsAwAAAE9XTAEAAAB3BwcHBwcHBwcHBwcHBwcHBwcHBwcHBwcHBwcHBwbBS7AAAAMDAwMDAwMDAwMDAwMDAwMDAwMDAwMDAwMDAwMDAwECAwQFBgcICQoLDA0ODxAREhMUFRYXGBkaGxwdHh8g"

\* MintLineA's payload cut right before the mint key.
MintLineTruncated ==
  "Program data: G3KpTd7rY3YDAAAAQ2F0AwAAAENBVAEAAAB1"

TxSamples ==
  << [logMessages |-> Null, blockTime |-> <<90061>>],
     [logMessages |-> <<"Program log: Instruction: Transfer">>, blockTime |-> <<90061>>],
     [logMessages |-> <<"Program log: Create", programSuccessLine, MintLineA>>,
      blockTime |-> <<90061>>],
     [logMessages |-> <<programSuccessLine, MintLineB, "Program log: done">>,
      blockTime |-> <<2000000>>],
     [logMessages |-> <<programSuccessLine, MintLineOther>>, blockTime |-> <<90061>>],
     [logMessages |-> <<programSuccessLine, MintLineA>>, blockTime |-> Null],
     [logMessages |-> <<programSuccessLine, MintLineB>>, blockTime |-> <<0>>],
     [logMessages |-> <<programSuccessLine, MintLineTruncated>>, blockTime |-> <<90061>>] >>

TxIds == 1..Len(TxSamples)


\* ------------------------------------------------------------------------
\* Inputs of the decoder on its own: event payloads built field by field,
\* whole or cut short, and the log sequences that carry them.
\* ------------------------------------------------------------------------
\* The UTF-8 encoding of a code point, and of a text.
Utf8EncodePoint(c) ==
  IF c < 128 THEN <<c>>
  ELSE IF c < 2048 THEN <<192 + (c \div 64), 128 + (c % 64)>>
  ELSE IF c < 65536
       THEN <<224 + (c \div 4096), 128 + ((c \div 64) % 64), 128 + (c % 64)>>
       ELSE <<240 + (c \div 262144), 128 + ((c \div 4096) % 64),
              128 + ((c \div 64) % 64), 128 + (c % 64)>>

RECURSIVE Utf8Encode(_)
Utf8Encode(text) ==
  IF text = <<>> THEN <<>> ELSE Utf8EncodePoint(Head(text)) \o Utf8Encode(Tail(text))

\* The characters lo..hi of a base64 text, given by their 6-bit values.
RECURSIVE B64Text(_, _, _)
B64Text(values, lo, hi) ==
  IF lo > hi THEN ""
  ELSE IF lo = hi THEN CharAt(Base64Alphabet, values[lo] + 1)
       ELSE LET mid == (lo + hi) \div 2
            IN B64Text(values, lo, mid) \o B64Text(values, mid + 1, hi)

\* The base64 text of bytes, padded with "=".
Base64Encode(bytes) ==
  LET n == Len(bytes)
      at(j) == IF j <= n THEN bytes[j] ELSE 0
      values == [c \in 1..((n * 8 + 5) \div 6) |->
                   LET bit == 6 * (c - 1)
                       j == bit \div 8 + 1
                       pair == at(j) * 256 + at(j + 1)
                   IN (pair \div (2 ^ (10 - (bit % 8)))) % 64]
  IN B64Text(values, 1, Len(values))
       \o (CASE n % 3 = 0 -> "" [] n % 3 = 1 -> "==" [] n % 3 = 2 -> "=")

\* The first 8 bytes of a pump.fun create event: their base64 text begins
\* with the characters that dataPrefix ends with.
CreateEventLead == <<27, 114, 169, 77, 222, 235, 99, 118>>

ZeroLead == [k \in 1..DISCRIMINATOR_LEN |-> 0]

\* Texts as code points: none, "Cat", "Cat" after a byte order mark, and
\* characters of two, three and four bytes.
TextNone == <<>>

TextCat == <<67, 97, 116>>

TextMarkCat == <<BYTE_ORDER_MARK, 67, 97, 116>>

TextAccent == <<99, 97, 102, 233>>

TextEuro == <<8364>>

TextEmoji == <<128512, 33>>

\* Keys: the mint of MintLineA (its address ends in "pump"), a key with
\* leading zero bytes, the bytes 1..32, and the largest key.
KeyPump ==
  [k \in 1..KEY_LEN |->
     IF k <= 28 THEN 7 ELSE CASE k = 29 -> 6 [] k = 30 -> 193 [] k = 31 -> 75 [] k = 32 -> 175]

KeyZeros == [k \in 1..KEY_LEN |-> IF k <= 2 THEN 0 ELSE 3]

KeyCount == [k \in 1..KEY_LEN |-> k]

KeyMax == [k \in 1..KEY_LEN |-> 255]

\* The fields a payload is built from.
Inputs ==
  {[lead |-> l, name |-> n, symbol |-> s, uri |-> u,
    mint |-> m, bondingCurve |-> KeyZeros, user |-> c] :
     l \in {CreateEventLead, ZeroLead},
     n \in {TextNone, TextCat, TextMarkCat, TextAccent, TextEuro, TextEmoji},
     s \in {TextNone, TextCat},
     u \in {TextEuro, TextCat},
     m \in {KeyPump, KeyZeros, KeyMax},
     c \in {KeyCount}}

\* A length-prefixed string: the length in the first of 4 bytes, then the bytes.
LengthPrefixed(text) ==
  LET bytes == Utf8Encode(text)
  IN <<Len(bytes)>> \o [k \in 1..(LENGTH_FIELD_LEN - 1) |-> 0] \o bytes

\* The payload of the fields f: no padding between the fields.
BuildBuffer(f) ==
  f.lead \o LengthPrefixed(f.name) \o LengthPrefixed(f.symbol)
    \o LengthPrefixed(f.uri) \o f.mint \o f.bondingCurve \o f.user

PlainInputs ==
  [lead |-> CreateEventLead, name |-> TextCat, symbol |-> TextCat, uri |-> TextEuro,
   mint |-> KeyPump, bondingCurve |-> KeyZeros, user |-> KeyCount]

\* The log sequences: every arrangement of up to MaxLogLines lines, each the
\* success marker ("M"), the data line ("D") or some other line ("X").
Layouts == UNION {[1..n -> {"M", "D", "X"}] : n \in 0..MaxLogLines}

\* A trial: the fields, how many bytes of the payload are kept, and the
\* arrangement of the log lines.  Every payload is tried whole; two of them
\* are also cut at every length; one is tried in every arrangement.
Trials ==
  {[inputs |-> f, keep |-> Len(BuildBuffer(f)), layout |-> <<"M", "D">>] : f \in Inputs}
    \cup {[inputs |-> f, keep |-> k, layout |-> <<"M", "D">>] :
            f \in {PlainInputs, [PlainInputs EXCEPT !.name = TextEmoji]},
            k \in 0..(DISCRIMINATOR_LEN + 3 * LENGTH_FIELD_LEN + 3 * KEY_LEN + 12)}
    \cup {[inputs |-> PlainInputs, keep |-> Len(BuildBuffer(PlainInputs)), layout |-> l] :
            l \in Layouts}

Payload(t) == SubSeq(BuildBuffer(t.inputs), 1, Min(t.keep, Len(BuildBuffer(t.inputs))))

DataLine(t) == "Program data: " \o Base64Encode(Payload(t))

Logs(t) ==
  [k \in DOMAIN t.layout |->
     CASE t.layout[k] = "M" -> programSuccessLine
       [] t.layout[k] = "D" -> DataLine(t)
       [] t.layout[k] = "X" -> "Program log: Instruction: Create"]


\* ------------------------------------------------------------------------
\* State (src/pumpfinder.ts)
\* ------------------------------------------------------------------------
VARIABLES
  concurrency,        \* CONCURRENCY, read from the configuration
  histLen,            \* the signatures of the account older than the start cursor
  mints,              \* processMintLog of each ledger transaction's log messages
  pc,                 \* where main is
  before,             \* main: the pagination cursor
  fetchedSignatures,  \* main: the signatures collected
  limit,              \* main: the limit of the latest request
  sigs,               \* main: the latest page
  i,                  \* main: the slice counter
  totalBatches,       \* main
  batchSigs,          \* main: the slice handed to withConcurrency (items)
  results,            \* withConcurrency: the output collection
  index,              \* withConcurrency: the claim cursor
  workers,            \* withConcurrency: the workers, each with its handler call
  claims,             \* history: how often each index of items was claimed
  totalPumpCount,     \* main
  totalValid,         \* main
  totalSkipped,       \* main
  oldestPumpToken,    \* main: Null or [tokenAddress, timestamp]
  batches,            \* the sink: the batch written for each slice
  history,            \* history: the outcomes of the slices aggregated so far
  slices,             \* history: the items of each withConcurrency call of main
  rejected,           \* main's promise was rejected (line 219 logs the error)
  trial,              \* the decoder on its own: the input of the call
  outcome             \* the decoder on its own: Null, or the call and what it returned

vars ==
  <<concurrency, histLen, mints, pc, before, fetchedSignatures, limit, sigs, i,
    totalBatches, batchSigs, results, index, workers, claims, totalPumpCount,
    totalValid, totalSkipped, oldestPumpToken, batches, history, slices,
    rejected, trial, outcome>>

pageVars == <<before, fetchedSignatures, limit, sigs>>

poolVars == <<batchSigs, results, index, workers, claims>>

aggregateVars ==
  <<totalPumpCount, totalValid, totalSkipped, oldestPumpToken, batches, history>>

configVars == <<concurrency, histLen, mints>>

decoderVars == <<trial, outcome>>

\* Signatures are numbered by age: 1 is the oldest signature of the account,
\* and the start cursor is the signature histLen + 1.
START_BEFORE_SIGNATURE == histLen + 1

\* ------------------------------------------------------------------------
\* extractTransactionInfo
\* ------------------------------------------------------------------------
\* The three shapes of ExtractedResult, as records of one type.
Failed == [kind |-> "null", signature |-> 0, tokenAddress |-> "", timestamp |-> Null]

Skipped == [kind |-> "skipped", signature |-> 0, tokenAddress |-> "", timestamp |-> Null]

Resolved(signature, tokenAddress, timestamp) ==
  [kind |-> "resolved", signature |-> signature, tokenAddress |-> tokenAddress,
   timestamp |-> timestamp]

\* What one call of getParsedTransaction does: it throws, returns null, or
\* returns a transaction of the ledger.
NoResponse == [kind |-> "none", id |-> 0]

Responses ==
  {[kind |-> "throw", id |-> 0], [kind |-> "null", id |-> 0]}
    \cup {[kind |-> "tx", id |-> s] : s \in TxIds}

\* !tx?.meta?.logMessages, or the call threw: the attempt failed.
AttemptFailed(resp) ==
  \/ resp.kind = "throw"
  \/ resp.kind = "null"
  \/ resp.kind = "tx" /\ TxSamples[resp.id].logMessages = Null

\* A faulty variant of MayRetry: the bound is off by one (attempt <= 3).
MayRetryOneMore(attempt) == attempt <= MAX_ATTEMPTS

\* attempt < 3
MayRetry(attempt) == attempt < MAX_ATTEMPTS

\* tx.blockTime ? new Date(tx.blockTime * 1000).toISOString() : null
\* (<<iso>> for a string, Null for null)
BlockTimeISO(blockTime) ==
  IF blockTime # Null /\ blockTime[1] # 0
  THEN <<ToISOString(blockTime[1] * 1000)>>
  ELSE Null

\* A faulty variant of Extract: only a missing event is skipped, an empty
\* mint address is not.
ExtractIgnoringEmptyMint(signature, mint, blockTime) ==
  IF mint = Null
  THEN Skipped
  ELSE Resolved(signature, mint.mintAddress, BlockTimeISO(blockTime))

\* Lines 53-64: the result for a transaction that has log messages.
Extract(signature, mint, blockTime) ==
  IF mint = Null \/ mint.mintAddress = ""
  THEN Skipped
  ELSE Resolved(signature, mint.mintAddress, BlockTimeISO(blockTime))

\* ------------------------------------------------------------------------
\* withConcurrency
\* ------------------------------------------------------------------------
\* A faulty variant of WorkerCount: one worker too many.
WorkerCountOneMore(c) == c + 1

\* Array.from({ length: concurrency }, () => worker())
WorkerCount(c) == c

\* A faulty variant of AfterClaim: the cursor is not advanced.
AfterClaimStuck(n) == n

\* index++ : the cursor after a claim
AfterClaim(n) == n + 1

Exited ==
  [state |-> "done", item |-> 0, attempt |-> 0, calls |-> 0,
   resp |-> NoResponse, res |-> Failed]

\* The handler called on items[item]: attempt 1, its request in flight.
Calling(item) ==
  [state |-> "fetching", item |-> item, attempt |-> 1, calls |-> 1,
   resp |-> NoResponse, res |-> Failed]

\* A faulty variant of TakeNext: a worker that finds nothing to claim waits
\* for more instead of leaving its loop.
TakeNextWaits(st, w, len) ==
  IF st.index < len
  THEN [index |-> AfterClaim(st.index),
        workers |-> [st.workers EXCEPT ![w] = Calling(st.index)],
        claims |-> [st.claims EXCEPT ![st.index + 1] = @ + 1]]
  ELSE [st EXCEPT !.workers[w] = [Exited EXCEPT !.state = "waiting"]]

\* One turn of worker w's loop, lines 84-86: claim the next index and call
\* the handler on it, or leave the loop.  st is [index, workers, claims].
TakeNext(st, w, len) ==
  IF st.index < len
  THEN [index |-> AfterClaim(st.index),
        workers |-> [st.workers EXCEPT ![w] = Calling(st.index)],
        claims |-> [st.claims EXCEPT ![st.index + 1] = @ + 1]]
  ELSE [st EXCEPT !.workers[w] = Exited]

\* Line 91: the workers 1..n are started one after the other, each running
\* up to its first await.
RECURSIVE Spawn(_, _, _)
Spawn(st, n, len) ==
  IF n = 0 THEN st ELSE TakeNext(Spawn(st, n - 1, len), n, len)

InFlight ==
  Cardinality({w \in DOMAIN workers : workers[w].state \in {"fetching", "sleeping"}})

\* A faulty variant of AllExited: the first worker to leave ends the wait.
AnyExited == \E w \in DOMAIN workers : workers[w].state = "done"

\* Line 91: await Promise.all(...) of the workers
AllExited == \A w \in DOMAIN workers : workers[w].state = "done"

\* ------------------------------------------------------------------------
\* main: the slice's aggregation, lines 144-197
\* ------------------------------------------------------------------------
\* A faulty variant of CompareTime: the operands are swapped.
CompareTimeReversed(a, b) == GetTime(b.timestamp[1]) - GetTime(a.timestamp[1])

\* The comparator of line 155-159.
CompareTime(a, b) == GetTime(a.timestamp[1]) - GetTime(b.timestamp[1])

\* x put into the sorted sequence seq after every element that does not
\* compare greater: Array.prototype.sort is stable.
RECURSIVE InsertSorted(_, _)
InsertSorted(seq, x) ==
  IF seq = <<>> THEN <<x>>
  ELSE IF CompareTime(Head(seq), x) > 0 THEN <<x>> \o seq
       ELSE <<Head(seq)>> \o InsertSorted(Tail(seq), x)

RECURSIVE SortByTime(_)
SortByTime(seq) ==
  IF seq = <<>> THEN <<>>
  ELSE InsertSorted(SortByTime(SubSeq(seq, 1, Len(seq) - 1)), seq[Len(seq)])

IsRecord(tx) == tx.kind = "resolved"

HasTimestamp(tx) == tx.timestamp # Null

\* A faulty variant of IsSkipped: a null result counts as skipped too.
IsSkippedOrNull(tx) == tx.kind # "resolved"

\* Line 161: tx && "skipped" in tx
IsSkipped(tx) == tx.kind = "skipped"

IsPump(tx) == EndsWith(tx.tokenAddress, "pump")

ValidMints(parsed) == SortByTime(SelectSeq(SelectSeq(parsed, IsRecord), HasTimestamp))

\* A faulty variant of Older: the record processed last always wins.
OlderAlways(tx, oldest) == TRUE

\* Lines 186-190: whether tx replaces the oldest record held.
Older(tx, oldest) ==
  \/ oldest = Null
  \/ GetTime(tx.timestamp[1]) < GetTime(oldest.timestamp)

\* Lines 184-197
RECURSIVE UpdateOldest(_, _)
UpdateOldest(oldest, pumpCAs) ==
  IF pumpCAs = <<>> THEN oldest
  ELSE LET tx == Head(pumpCAs)
       IN UpdateOldest(
            IF tx.timestamp # Null /\ Older(tx, oldest)
            THEN [tokenAddress |-> tx.tokenAddress, timestamp |-> tx.timestamp[1]]
            ELSE oldest,
            Tail(pumpCAs))


\* ------------------------------------------------------------------------
\* Actions
\* ------------------------------------------------------------------------
NoWorkers == [w \in 1..0 |-> Exited]

Init ==
  /\ concurrency \in 1..MaxConcurrency
  /\ histLen \in 0..MaxHistory
  /\ mints = [s \in TxIds |->
                IF TxSamples[s].logMessages = Null THEN Null
                ELSE processMintLog(TxSamples[s].logMessages)]
  /\ pc = "page_loop"
  /\ before = START_BEFORE_SIGNATURE
  /\ fetchedSignatures = <<>>
  /\ limit = 0
  /\ sigs = <<>>
  /\ i = 0
  /\ totalBatches = 0
  /\ batchSigs = <<>>
  /\ results = <<>>
  /\ index = 0
  /\ workers = NoWorkers
  /\ claims = <<>>
  /\ totalPumpCount = 0
  /\ totalValid = 0
  /\ totalSkipped = 0
  /\ oldestPumpToken = Null
  /\ batches = <<>>
  /\ history = <<>>
  /\ slices = <<>>
  /\ rejected = FALSE
  /\ trial = Null
  /\ outcome = Null

\* A faulty variant of LoopCondition: the bound is off by one.
LoopConditionInclusive(collected) == collected <= TOTAL

\* Line 108: fetchedSignatures.length < TOTAL
LoopCondition(collected) == collected < TOTAL

\* A faulty variant of PageEmpty: a page shorter than a full page also ends
\* the loop.
PageEmptyOrShort(page) == Len(page) < BATCH_SIZE

\* Line 112: sigs.length === 0
PageEmpty(page) == Len(page) = 0

\* A faulty variant of PageLimit: the remaining count is ignored.
PageLimitUncapped(collected) == BATCH_SIZE

\* Lines 109-110
PageLimit(collected) == Min(BATCH_SIZE, TOTAL - collected)

\* getSignaturesForAddress(ACCOUNT, {before, limit}): the k signatures next
\* older than the cursor, newest first.
Page(cursor, k) == [j \in 1..k |-> cursor - j]

\* How many signatures a request may return: none when nothing is older than
\* the cursor, otherwise at least one and at most the limit.
PageSizes(cursor, lim) ==
  IF cursor <= 1 THEN {0} ELSE 1..Min(lim, cursor - 1)

\* A faulty variant of NextCursor: the newest signature of the page.
NextCursorNewest(page) == page[1]

\* Line 115: sigs[sigs.length - 1]
NextCursor(page) == page[Len(page)]

\* Lines 108-111: the loop condition holds and the next request is sent.
RequestPage ==
  /\ pc = "page_loop"
  /\ LoopCondition(Len(fetchedSignatures))
  /\ limit' = PageLimit(Len(fetchedSignatures))
  /\ pc' = "page_await"
  /\ UNCHANGED <<before, fetchedSignatures, sigs, i, totalBatches>>
  /\ UNCHANGED <<configVars, decoderVars, poolVars, aggregateVars, slices, rejected>>

\* Lines 125-131: the loop is left; the totals are set up.
StartBatches ==
  /\ totalBatches' = (Len(fetchedSignatures) + BATCH_SIZE - 1) \div BATCH_SIZE
  /\ i' = 0
  /\ pc' = "batch_loop"
  /\ totalPumpCount' = 0
  /\ totalValid' = 0
  /\ totalSkipped' = 0
  /\ oldestPumpToken' = Null
  /\ UNCHANGED <<batches, history, slices, rejected, configVars, decoderVars, poolVars>>

\* Line 108: the loop condition fails.
PagesComplete ==
  /\ pc = "page_loop"
  /\ ~LoopCondition(Len(fetchedSignatures))
  /\ StartBatches
  /\ UNCHANGED pageVars

\* Lines 111-115: the page arrives.
ReceivePage ==
  /\ pc = "page_await"
  /\ \E k \in PageSizes(before, limit) :
       /\ sigs' = Page(before, k)
       /\ IF PageEmpty(sigs')
          THEN /\ StartBatches
               /\ UNCHANGED <<before, fetchedSignatures, limit>>
          ELSE /\ fetchedSignatures' = fetchedSignatures \o sigs'
               /\ before' = NextCursor(sigs')
               /\ pc' = "page_loop"
               /\ UNCHANGED <<limit, i, totalBatches>>
               /\ UNCHANGED <<configVars, decoderVars, poolVars, aggregateVars, slices, rejected>>

\* A faulty variant of BatchSlice: the slice starts one signature early.
BatchSliceOverlapping(list, n) ==
  SubSeq(list, IF n = 0 THEN 1 ELSE n * BATCH_SIZE,
         Min((n + 1) * BATCH_SIZE, Len(list)))

\* Lines 134-137: fetchedSignatures.slice(i * BATCH_SIZE, (i + 1) * BATCH_SIZE)
BatchSlice(list, n) ==
  SubSeq(list, n * BATCH_SIZE + 1, Min((n + 1) * BATCH_SIZE, Len(list)))

\* Lines 80-91: withConcurrency(items, extractTransactionInfo, CONCURRENCY)
\* up to its await: the workers are started.
Call(items) ==
  LET n == WorkerCount(concurrency)
      st == Spawn([index |-> 0,
                   workers |-> [w \in 1..n |-> Exited],
                   claims |-> [k \in 1..Len(items) |-> 0]],
                  n, Len(items))
  IN /\ batchSigs' = items
     /\ results' = <<>>
     /\ index' = st.index
     /\ workers' = st.workers
     /\ claims' = st.claims

\* Lines 133-142 and 80-91: the next slice is cut and withConcurrency starts
\* its workers.
StartSlice ==
  /\ pc = "batch_loop"
  /\ i < totalBatches
  /\ Call(BatchSlice(fetchedSignatures, i))
  /\ slices' = Append(slices, BatchSlice(fetchedSignatures, i))
  /\ pc' = "pool"
  /\ UNCHANGED <<i, totalBatches, rejected, configVars, decoderVars, pageVars, aggregateVars>>

\* A faulty variant of AfterFailedAttempt: when the budget is spent the error
\* of the request is thrown on to the caller.
AfterFailedAttemptRethrows(me, resp) ==
  IF MayRetry(me.attempt)
  THEN [me EXCEPT !.state = "sleeping", !.resp = resp]
  ELSE IF resp.kind = "throw"
       THEN [me EXCEPT !.state = "raised", !.resp = resp]
       ELSE [me EXCEPT !.state = "settled", !.resp = resp, !.res = Failed]

\* Lines 44-51 and 65-72: after a failed attempt, thrown errors included, the
\* handler call pauses for the next attempt or returns null.
AfterFailedAttempt(me, resp) ==
  IF MayRetry(me.attempt)
  THEN [me EXCEPT !.state = "sleeping", !.resp = resp]
  ELSE [me EXCEPT !.state = "settled", !.resp = resp, !.res = Failed]

\* Lines 39-51 and 65-72: the request of worker w's handler call ends.  A
\* failed attempt is retried after the pause while attempts remain; any other
\* end settles the handler call.
FetchReturns(w, resp) ==
  /\ pc = "pool"
  /\ workers[w].state = "fetching"
  /\ LET me == workers[w]
         signature == batchSigs[me.item + 1]
     IN workers' =
          [workers EXCEPT ![w] =
             IF AttemptFailed(resp)
             THEN AfterFailedAttempt(me, resp)
             ELSE [me EXCEPT !.state = "settled", !.resp = resp,
                             !.res = Extract(signature, mints[resp.id],
                                             TxSamples[resp.id].blockTime)]]
  /\ UNCHANGED <<pc, i, totalBatches, batchSigs, results, index, claims>>
  /\ UNCHANGED <<configVars, decoderVars, pageVars, aggregateVars, slices, rejected>>

\* Lines 46-47 and 67-68: the pause ends and the next attempt is called.
RetryFetch(w) ==
  /\ pc = "pool"
  /\ workers[w].state = "sleeping"
  /\ workers' = [workers EXCEPT ![w] =
                   [@ EXCEPT !.state = "fetching", !.attempt = @ + 1,
                             !.calls = @ + 1, !.resp = NoResponse]]
  /\ UNCHANGED <<pc, i, totalBatches, batchSigs, results, index, claims>>
  /\ UNCHANGED <<configVars, decoderVars, pageVars, aggregateVars, slices, rejected>>

\* Lines 86-88 and 84-86: worker w takes its handler's result, appends it and
\* goes round its loop.
WorkerResume(w) ==
  /\ pc = "pool"
  /\ workers[w].state = "settled"
  /\ LET st == TakeNext([index |-> index, workers |-> workers, claims |-> claims],
                        w, Len(batchSigs))
     IN /\ results' = Append(results, workers[w].res)
        /\ index' = st.index
        /\ workers' = st.workers
        /\ claims' = st.claims
  /\ UNCHANGED <<pc, i, totalBatches, batchSigs>>
  /\ UNCHANGED <<configVars, decoderVars, pageVars, aggregateVars, slices, rejected>>

\* A faulty variant of AfterWrite: an error of the sink is swallowed and the
\* loop goes on.
AfterWriteSwallowed(written) == "batch_loop"

\* Lines 199-203 and 219: where main is after writeFileSync; when it throws,
\* nothing in main catches the error and main ends.
AfterWrite(written) == IF written THEN "batch_loop" ELSE "failed"

\* Lines 144-202: every worker has left its loop, withConcurrency returns
\* results, and the slice is aggregated and written.  written tells whether
\* writeFileSync succeeded; when it throws, main ends with the error.
FinishSlice(written) ==
  /\ pc = "pool"
  /\ AllExited
  /\ LET parsed == results
         validMints == ValidMints(parsed)
         skippedCount == Len(SelectSeq(parsed, IsSkipped))
         pumpCAs == SelectSeq(validMints, IsPump)
     IN /\ totalValid' = totalValid + Len(validMints)
        /\ totalSkipped' = totalSkipped + skippedCount
        /\ totalPumpCount' = totalPumpCount + Len(pumpCAs)
        /\ oldestPumpToken' = UpdateOldest(oldestPumpToken, pumpCAs)
        /\ history' = history \o parsed
        /\ rejected' = ~written
        /\ pc' = AfterWrite(written)
        /\ IF written
           THEN /\ batches' = Append(batches, validMints)
                /\ i' = i + 1
           ELSE UNCHANGED <<batches, i>>
  /\ UNCHANGED <<totalBatches, slices, configVars, decoderVars, pageVars, poolVars>>

\* Lines 205-216: no slice is left; the summary is reported.
Finish ==
  /\ pc = "batch_loop"
  /\ ~(i < totalBatches)
  /\ pc' = "done"
  /\ UNCHANGED <<i, totalBatches, slices, rejected>>
  /\ UNCHANGED <<configVars, decoderVars, pageVars, poolVars, aggregateVars>>

Next ==
  \/ RequestPage
  \/ PagesComplete
  \/ ReceivePage
  \/ StartSlice
  \/ \E w \in DOMAIN workers : \E resp \in Responses : FetchReturns(w, resp)
  \/ \E w \in DOMAIN workers : RetryFetch(w)
  \/ \E w \in DOMAIN workers : WorkerResume(w)
  \/ \E written \in BOOLEAN : FinishSlice(written)
  \/ Finish

Spec == Init /\ [][Next]_vars

\* The pagination loop goes on whenever it can: a request that was sent is
\* answered, and main runs on once the answer is there.
FairSpec == Spec /\ WF_vars(RequestPage \/ PagesComplete \/ ReceivePage)


\* ------------------------------------------------------------------------
\* The decoder on its own: decodeMint and processMintLog are called on a
\* trial while main does not run.
\* ------------------------------------------------------------------------
DecoderInit ==
  /\ trial \in Trials
  /\ outcome = Null
  /\ concurrency = 1
  /\ histLen = 0
  /\ mints = <<>>
  /\ pc = "idle"
  /\ before = START_BEFORE_SIGNATURE
  /\ fetchedSignatures = <<>>
  /\ limit = 0
  /\ sigs = <<>>
  /\ i = 0
  /\ totalBatches = 0
  /\ batchSigs = <<>>
  /\ results = <<>>
  /\ index = 0
  /\ workers = NoWorkers
  /\ claims = <<>>
  /\ totalPumpCount = 0
  /\ totalValid = 0
  /\ totalSkipped = 0
  /\ oldestPumpToken = Null
  /\ batches = <<>>
  /\ history = <<>>
  /\ slices = <<>>
  /\ rejected = FALSE

mainVars ==
  <<pc, i, totalBatches, rejected, slices, configVars, pageVars, poolVars, aggregateVars>>

\* decodeMint(data) on the base64 text of the trial's payload
DecodeMintCall ==
  /\ outcome = Null
  /\ outcome' = [op |-> "decodeMint", value |-> decodeMint(Base64Encode(Payload(trial)))]
  /\ UNCHANGED <<trial, mainVars>>

\* processMintLog(logs) on the trial's log sequence
ProcessMintLogCall ==
  /\ outcome = Null
  /\ outcome' = [op |-> "processMintLog", value |-> processMintLog(Logs(trial))]
  /\ UNCHANGED <<trial, mainVars>>

DecoderNext == DecodeMintCall \/ ProcessMintLogCall

DecoderSpec == DecoderInit /\ [][DecoderNext]_vars


\* ------------------------------------------------------------------------
\* withConcurrency on its own: one call with any list of up to BATCH_SIZE
\* items, the empty list included, and any concurrency.
\* ------------------------------------------------------------------------
PoolInit ==
  /\ concurrency \in 1..MaxConcurrency
  /\ histLen \in 0..BATCH_SIZE
  /\ mints = [s \in TxIds |->
                IF TxSamples[s].logMessages = Null THEN Null
                ELSE processMintLog(TxSamples[s].logMessages)]
  /\ pc = "call"
  /\ batchSigs = Page(START_BEFORE_SIGNATURE, histLen)
  /\ before = START_BEFORE_SIGNATURE
  /\ fetchedSignatures = <<>>
  /\ limit = 0
  /\ sigs = <<>>
  /\ i = 0
  /\ totalBatches = 0
  /\ results = <<>>
  /\ index = 0
  /\ workers = NoWorkers
  /\ claims = <<>>
  /\ totalPumpCount = 0
  /\ totalValid = 0
  /\ totalSkipped = 0
  /\ oldestPumpToken = Null
  /\ batches = <<>>
  /\ history = <<>>
  /\ slices = <<>>
  /\ rejected = FALSE
  /\ trial = Null
  /\ outcome = Null

\* Lines 80-91: the call starts its workers.
CallPool ==
  /\ pc = "call"
  /\ Call(batchSigs)
  /\ pc' = "pool"
  /\ UNCHANGED <<i, totalBatches, slices, rejected>>
  /\ UNCHANGED <<configVars, decoderVars, pageVars, aggregateVars>>

\* Lines 91-92: every worker has left its loop and results is returned.
PoolReturns ==
  /\ pc = "pool"
  /\ AllExited
  /\ pc' = "returned"
  /\ UNCHANGED <<i, totalBatches, slices, rejected>>
  /\ UNCHANGED <<configVars, decoderVars, pageVars, poolVars, aggregateVars>>

PoolNext ==
  \/ CallPool
  \/ \E w \in DOMAIN workers : \E resp \in Responses : FetchReturns(w, resp)
  \/ \E w \in DOMAIN workers : RetryFetch(w)
  \/ \E w \in DOMAIN workers : WorkerResume(w)
  \/ PoolReturns

\* Every request is answered, every pause ends and every continuation runs:
\* while a step is possible, one is taken.
PoolSpec == PoolInit /\ [][PoolNext]_vars /\ WF_vars(PoolNext)


\* ------------------------------------------------------------------------
\* Properties
\* ------------------------------------------------------------------------
Range(seq) == {seq[k] : k \in DOMAIN seq}

Count(seq, x) == Cardinality({k \in DOMAIN seq : seq[k] = x})

Workers == DOMAIN workers

\* C1: in withConcurrency the handler calls that have started and have not
\* completed are never more than the concurrency value.
C1_InFlightWithinCap == InFlight <= concurrency

\* The cap binds: as many calls as allowed are in flight while an item is
\* still waiting to be claimed.
C1_CapBinds ==
  /\ pc = "pool"
  /\ InFlight = concurrency
  /\ index < Len(batchSigs)

\* C2: no index of items is claimed twice, the indexes claimed are those
\* below the cursor, and when every worker has left its loop every index has
\* been claimed once and results holds one result per item.
C2_EachIndexOnce ==
  /\ \A k \in DOMAIN claims : claims[k] <= 1
  /\ \A k \in DOMAIN claims : claims[k] = 1 <=> k <= index
  /\ AllExited =>
       /\ \A k \in DOMAIN claims : claims[k] = 1
       /\ Len(results) = Len(batchSigs)
       /\ DOMAIN claims = DOMAIN batchSigs

\* withConcurrency returns for a slice of BATCH_SIZE items worked off by a
\* single worker.
C2_PoolReturned ==
  /\ pc = "pool"
  /\ AllExited
  /\ concurrency = 1
  /\ Len(batchSigs) = BATCH_SIZE
  /\ Len(results) = BATCH_SIZE

\* The handler call of w has n calls of getParsedTransaction behind it.
C3_Budget(w) ==
  LET me == workers[w]
  IN /\ me.calls <= MAX_ATTEMPTS
     /\ me.state \in {"fetching", "sleeping", "settled"} => me.calls = me.attempt
     /\ me.state = "sleeping" => AttemptFailed(me.resp) /\ me.calls < MAX_ATTEMPTS
     /\ me.state = "settled" /\ AttemptFailed(me.resp) =>
          me.calls = MAX_ATTEMPTS /\ me.res = Failed
     /\ me.state = "settled" /\ ~AttemptFailed(me.resp) =>
          me.res = Extract(batchSigs[me.item + 1], mints[me.resp.id],
                           TxSamples[me.resp.id].blockTime)
     /\ me.state = "settled" /\ me.res = Failed => me.calls = MAX_ATTEMPTS

\* A call after the first of a handler call follows a failed attempt of the
\* same handler call, and a settled handler call makes no further call.
C3_CallsFollowFailures ==
  \A w \in Workers :
    w \in DOMAIN workers' /\ workers'[w].calls > 1
                           /\ workers'[w].calls # workers[w].calls
      => /\ workers[w].state = "sleeping"
         /\ AttemptFailed(workers[w].resp)
         /\ workers'[w].state = "fetching"
         /\ workers'[w].item = workers[w].item
         /\ workers'[w].calls = workers[w].calls + 1

\* C3: extractTransactionInfo calls getParsedTransaction at most 3 times for
\* one signature, failed attempts of either sort counting alike; it returns
\* null exactly after 3 failed attempts, and otherwise returns what the first
\* attempt that did not fail gives, with no attempt after it.
C3_RetryBudget ==
  /\ [](\A w \in Workers : C3_Budget(w))
  /\ [][C3_CallsFollowFailures]_vars

\* A handler call that failed twice and then resolved.
C3_ThirdAttemptResolved ==
  \E w \in Workers :
    /\ workers[w].state = "settled"
    /\ workers[w].calls = MAX_ATTEMPTS
    /\ workers[w].res.kind = "resolved"

\* C4: for a transaction that has log messages the result is Skipped when no
\* event decodes or the decoded mint address is empty, and otherwise the
\* record of the signature and the decoded mint address; either is the result
\* of that very attempt, which is never retried.
C4_SkippedOrResolved ==
  \A w \in Workers :
    LET me == workers[w]
    IN /\ me.state = "sleeping" => AttemptFailed(me.resp)
       /\ me.state = "settled" /\ ~AttemptFailed(me.resp) =>
            LET mint == mints[me.resp.id]
            IN IF mint = Null \/ mint.mintAddress = ""
               THEN me.res = Skipped
               ELSE /\ me.res.kind = "resolved"
                    /\ me.res.signature = batchSigs[me.item + 1]
                    /\ me.res.tokenAddress = mint.mintAddress

\* An event decoded with an empty mint address is skipped on the first attempt.
C4_EmptyMintSkipped ==
  \E w \in Workers :
    LET me == workers[w]
    IN /\ me.state = "settled"
       /\ me.resp.kind = "tx"
       /\ mints[me.resp.id] # Null
       /\ mints[me.resp.id].mintAddress = ""
       /\ me.res = Skipped
       /\ me.calls = 1

\* C5: a resolved record has no timestamp exactly when the transaction has no
\* blockTime, and for every blockTime given, 0 included, its timestamp is the
\* ISO-8601 form of that blockTime.
C5_TimestampIffBlockTime ==
  \A w \in Workers :
    LET me == workers[w]
    IN me.state = "settled" /\ me.res.kind = "resolved" =>
         LET blockTime == TxSamples[me.resp.id].blockTime
         IN /\ me.res.timestamp = Null <=> blockTime = Null
            /\ blockTime # Null =>
                 me.res.timestamp = <<ToISOString(blockTime[1] * 1000)>>


Paging == pc \in {"page_loop", "page_await"}

\* C6: every pagination request asks for the smaller of the page size and
\* the count still missing, and, the source returning no more than it is
\* asked for, the signatures collected never exceed TOTAL.
C6_LimitNeverOvershoots ==
  /\ pc = "page_await" =>
       /\ limit = (IF TOTAL - Len(fetchedSignatures) < BATCH_SIZE
                   THEN TOTAL - Len(fetchedSignatures)
                   ELSE BATCH_SIZE)
       /\ limit >= 1
       /\ Len(sigs) <= BATCH_SIZE
  /\ Len(fetchedSignatures) <= TOTAL

\* A request whose limit is the count still missing, below the page size.
C6_LastPageSmaller ==
  /\ pc = "page_await"
  /\ Len(fetchedSignatures) > 0
  /\ limit = TOTAL - Len(fetchedSignatures)
  /\ limit < BATCH_SIZE

\* The loop is left only with TOTAL signatures collected or on an empty page.
C7_LeavesOnTargetOrEmptyPage ==
  Paging /\ ~Paging' =>
    \/ Len(fetchedSignatures') = TOTAL /\ pc = "page_loop"
    \/ Len(sigs') = 0 /\ pc = "page_await"

\* C7: the signature-collection loop terminates; it stops exactly when the
\* total reaches TOTAL or a request returns no signature; it ends with TOTAL
\* signatures when the account holds at least that many older than the start
\* cursor, and with all of them when it holds fewer.
C7_CollectTerminates ==
  /\ <>(~Paging)
  /\ [][C7_LeavesOnTargetOrEmptyPage]_vars
  /\ [](pc = "page_await" => Len(fetchedSignatures) < TOTAL)
  /\ [](~Paging =>
          Len(fetchedSignatures) = (IF histLen >= TOTAL THEN TOTAL ELSE histLen))

\* The loop ended on an empty page with every signature of a short history.
C7_HistoryExhausted ==
  /\ ~Paging
  /\ histLen > 0
  /\ histLen < TOTAL
  /\ Len(fetchedSignatures) = histLen
  /\ Len(sigs) = 0

\* C8 as stated: after a page shorter than requested, empty or not, no
\* further request is issued.
C8_ShortPageEndsLoop ==
  [][pc = "page_loop" /\ pc' = "page_await" => Len(sigs) = limit]_vars

\* C8 as the code has it: an empty page ends the loop with the signatures
\* collected so far and no further request; a page shorter than requested
\* but not empty is appended and the loop goes on from its last signature.
C8_OnlyEmptyPageEndsLoop ==
  [][/\ pc = "page_await" /\ pc' # "page_await" /\ Len(sigs') = 0 =>
          pc' = "batch_loop" /\ fetchedSignatures' = fetchedSignatures
     /\ pc = "page_await" /\ pc' # "page_await"
          /\ Len(sigs') > 0 /\ Len(sigs') < limit =>
          /\ pc' = "page_loop"
          /\ fetchedSignatures' = fetchedSignatures \o sigs'
          /\ before' = sigs'[Len(sigs')]
          /\ LoopCondition(Len(fetchedSignatures'))
     /\ pc = "page_loop" /\ pc' = "page_await" =>
          Len(sigs) > 0 \/ Len(fetchedSignatures) = 0]_vars

\* A further request is out after a page that was short but not empty.
C8_RequestAfterShortPage ==
  /\ pc = "page_await"
  /\ Len(sigs) > 0
  /\ Len(fetchedSignatures) < BATCH_SIZE

IsEmitted(tx) == tx.kind = "resolved" /\ tx.timestamp # Null

\* C9: the batch written for a slice holds exactly the resolved records of
\* the slice that have a timestamp, each as often as it was returned, in
\* non-decreasing order of timestamp, whatever the order of completion.
C9_BatchSortedAndExact ==
  pc \in {"batch_loop", "done"} /\ i >= 1 =>
    LET batch == batches[i]
    IN /\ \A j, k \in DOMAIN batch :
            j < k => GetTime(batch[j].timestamp[1]) <= GetTime(batch[k].timestamp[1])
       /\ \A tx \in Range(batch) : IsEmitted(tx)
       /\ \A tx \in Range(results) \cup Range(batch) :
            Count(batch, tx) = (IF IsEmitted(tx) THEN Count(results, tx) ELSE 0)

\* A slice whose records completed latest-first and
\* were written earliest-first.
C9_SortReordered ==
  /\ pc = "batch_loop"
  /\ i >= 1
  /\ Len(results) = BATCH_SIZE
  /\ Len(batches[i]) = BATCH_SIZE
  /\ results[1] = batches[i][BATCH_SIZE]
  /\ GetTime(results[1].timestamp[1]) > GetTime(batches[i][1].timestamp[1])

\* The positions of history that hold a matching record: resolved, with a
\* timestamp, the token address ending in "pump".
Matching ==
  {k \in DOMAIN history :
     /\ history[k].kind = "resolved"
     /\ history[k].timestamp # Null
     /\ EndsWith(history[k].tokenAddress, "pump")}

C10_OldestIsMinimum ==
  /\ oldestPumpToken = Null <=> Matching = {}
  /\ Matching # {} =>
       /\ \E k \in Matching :
            /\ oldestPumpToken.tokenAddress = history[k].tokenAddress
            /\ oldestPumpToken.timestamp = history[k].timestamp[1]
       /\ \A k \in Matching :
            GetTime(oldestPumpToken.timestamp) <= GetTime(history[k].timestamp[1])

C10_OnlyEarlierReplaces ==
  oldestPumpToken # Null =>
    /\ oldestPumpToken' # Null
    /\ oldestPumpToken' # oldestPumpToken =>
         GetTime(oldestPumpToken'.timestamp) < GetTime(oldestPumpToken.timestamp)

\* C10: after each slice the oldest matching record is absent exactly when
\* no matching record occurred in the slices aggregated so far, and otherwise
\* carries the minimum timestamp over all of them; it is replaced only by a
\* strictly earlier record and never becomes absent again.
C10_OldestMatching ==
  /\ []C10_OldestIsMinimum
  /\ [][C10_OnlyEarlierReplaces]_vars

\* The second slice brought a matching record earlier than the one the first
\* slice had left.
C10_LaterSliceReplaced ==
  /\ i = 2
  /\ oldestPumpToken # Null
  /\ \E tx \in Range(batches[1]) :
       /\ IsPump(tx)
       /\ GetTime(tx.timestamp[1]) > GetTime(oldestPumpToken.timestamp)
  /\ \E tx \in Range(batches[2]) :
       /\ IsPump(tx)
       /\ tx.timestamp[1] = oldestPumpToken.timestamp

\* The number of outcomes aggregated so far that satisfy nothing but the
\* given test of kind and timestamp.
Outcomes(kind, stamped) ==
  Cardinality({k \in DOMAIN history :
                 /\ history[k].kind = kind
                 /\ (history[k].timestamp # Null) = stamped})

\* C11: total resolved is the number of outcomes that are resolved records
\* with a timestamp, total skipped the number of skipped outcomes, total
\* matching the number of counted records whose token address ends in "pump";
\* a failed outcome (and a record without timestamp) adds to none, so total
\* matching <= total resolved and total resolved + total skipped is at most
\* the number of signatures processed, which at the end is all of them.
C11_TotalsCountOutcomes ==
  /\ totalValid = Outcomes("resolved", TRUE)
  /\ totalSkipped = Outcomes("skipped", FALSE)
  /\ totalPumpCount = Cardinality(Matching)
  /\ totalPumpCount <= totalValid
  /\ totalValid + totalSkipped + Outcomes("null", FALSE) + Outcomes("resolved", FALSE)
       = Len(history)
  /\ totalValid + totalSkipped <= Len(history)
  /\ pc = "done" => Len(history) = Len(fetchedSignatures)

\* The pipeline ended with a failed, a skipped and a matching outcome.
C11_FailedLeftOut ==
  /\ pc = "done"
  /\ Outcomes("null", FALSE) = 1
  /\ totalSkipped = 1
  /\ totalPumpCount = 1
  /\ totalValid = 1

\* C12: the slices handed to withConcurrency are the contiguous chunks of
\* BATCH_SIZE signatures of the collected list (the last one shorter), taken
\* in list order, one call each; at the end there are ceil(n / BATCH_SIZE) of
\* them, every collected signature is in exactly one, and there is one
\* outcome per signature, a record carrying the signature of its own slice.
C12_SlicesPartition ==
  LET n == Len(fetchedSignatures)
  IN /\ \A k \in DOMAIN slices :
          /\ Len(slices[k]) = Min(BATCH_SIZE, n - (k - 1) * BATCH_SIZE)
          /\ \A j \in DOMAIN slices[k] :
               slices[k][j] = fetchedSignatures[(k - 1) * BATCH_SIZE + j]
     /\ Len(slices) = (IF pc \in {"pool", "failed"} THEN i + 1 ELSE i)
     /\ pc = "pool" => batchSigs = slices[i + 1]
     /\ pc \in {"batch_loop", "done"} => Len(history) = Min(i * BATCH_SIZE, n)
     /\ \A k \in DOMAIN history :
          history[k].kind = "resolved" =>
            /\ history[k].signature \in Range(slices[(k - 1) \div BATCH_SIZE + 1])
            /\ \A j \in DOMAIN history :
                 j # k /\ history[j].kind = "resolved" =>
                   history[j].signature # history[k].signature
     /\ pc = "done" =>
          /\ Len(slices) = totalBatches
          /\ Len(slices) * BATCH_SIZE >= n
          /\ (Len(slices) - 1) * BATCH_SIZE < n
          /\ \A s \in Range(fetchedSignatures) :
               Cardinality({k \in DOMAIN slices : s \in Range(slices[k])}) = 1
          /\ Len(history) = n

\* The pipeline ended after a full and a shorter slice.
C12_TwoSlices ==
  /\ pc = "done"
  /\ Len(slices) = 2
  /\ Len(slices[1]) = BATCH_SIZE
  /\ Len(slices[2]) < BATCH_SIZE
  /\ Len(history) = TOTAL

\* C13: when the sink write of a slice fails, main ends with the error: from
\* then on nothing happens, so no signature of a later slice is fetched, no
\* later batch is written and the summary is never reported.
C13_SinkFailureHalts ==
  /\ [](rejected => /\ pc = "failed"
                    /\ Len(batches) = i
                    /\ Len(slices) = i + 1
                    /\ i < totalBatches)
  /\ [][~rejected]_vars

\* The write of the first of two slices failed.
C13_FirstWriteFailed ==
  /\ rejected
  /\ i = 0
  /\ totalBatches = 2
  /\ batches = <<>>

\* One step of main as C18 sees it: a slice is started only when no handler
\* call of the slice before is left, and the totals, the oldest record and
\* the sink change only when every worker of the slice has left its loop with
\* a result for every item.
C18_Step ==
  LET idle == \A w \in DOMAIN workers : workers[w].state = "done"
  IN /\ slices' # slices => idle /\ pc = "batch_loop" /\ Len(history) = i * BATCH_SIZE
     /\ aggregateVars' # aggregateVars =>
          /\ idle
          /\ pc = "pool"
          /\ Len(results) = Len(batchSigs)
          /\ history' = history \o results

\* C18: slices are processed one after the other, and the aggregate is never
\* updated while a handler call is in flight.
C18_SlicesSequential ==
  /\ [][C18_Step]_vars
  /\ [](pc # "pool" => \A w \in DOMAIN workers : workers[w].state = "done")

\* The second slice is being fetched with the first one aggregated and written.
C18_SecondSliceInFlight ==
  /\ pc = "pool"
  /\ i = 1
  /\ InFlight >= 1
  /\ Len(batches) = 1
  /\ Len(history) = BATCH_SIZE

\* C19: whatever the requests of a handler call do (throw, return null,
\* return a transaction without logs, return logs that do not decode), the
\* call never raises: it is in flight, pausing, or has returned one of the
\* three outcomes, and a pausing call has an attempt left.
C19_NeverRaises ==
  \A w \in Workers :
    LET me == workers[w]
    IN /\ me.state \in {"done", "fetching", "sleeping", "settled"}
       /\ me.state = "sleeping" => me.attempt < MAX_ATTEMPTS
       /\ me.state = "fetching" => me.attempt <= MAX_ATTEMPTS
       /\ me.state = "settled" =>
            \/ me.res = Failed
            \/ me.res = Skipped
            \/ /\ me.res.kind = "resolved"
               /\ me.res.signature = batchSigs[me.item + 1]

\* A handler call returned null after its last request threw, while another
\* worker's call is still in flight.
C19_ThrowBecameFailed ==
  \E w, v \in Workers :
    /\ workers[w].state = "settled"
    /\ workers[w].resp.kind = "throw"
    /\ workers[w].res = Failed
    /\ workers[v].state = "fetching"

\* C20: the first request uses the start cursor and every later request the
\* last signature of the page received right before it; the collected list is
\* the run of signatures next older than the start cursor, newest first,
\* without a duplicate.
C20_CursorFollowsPages ==
  /\ before = (IF fetchedSignatures = <<>> THEN START_BEFORE_SIGNATURE
               ELSE fetchedSignatures[Len(fetchedSignatures)])
  /\ Paging /\ fetchedSignatures # <<>> => sigs # <<>> /\ before = sigs[Len(sigs)]
  /\ \A k \in DOMAIN fetchedSignatures :
       fetchedSignatures[k] = START_BEFORE_SIGNATURE - k
  /\ \A j, k \in DOMAIN fetchedSignatures :
       j # k => fetchedSignatures[j] # fetchedSignatures[k]

\* The second request is out, its cursor the last signature of a full page.
C20_SecondRequest ==
  /\ pc = "page_await"
  /\ Len(fetchedSignatures) = BATCH_SIZE
  /\ Len(sigs) = BATCH_SIZE
  /\ before = START_BEFORE_SIGNATURE - BATCH_SIZE

\* The trial's payload is whole.
Whole == trial.keep = Len(BuildBuffer(trial.inputs))

\* C14: decodeMint of a payload built from 8 leading bytes, three
\* length-prefixed strings and three 32-byte keys returns the name, symbol
\* and uri the payload was built from and the base58 text of its keys.
C14_RoundTrip ==
  outcome # Null /\ outcome.op = "decodeMint" /\ Whole =>
    /\ outcome.value.name = trial.inputs.name
    /\ outcome.value.symbol = trial.inputs.symbol
    /\ outcome.value.uri = trial.inputs.uri
    /\ outcome.value.mintAddress = Bs58Encode(trial.inputs.mint)
    /\ outcome.value.bondingCurve = Bs58Encode(trial.inputs.bondingCurve)
    /\ outcome.value.user = Bs58Encode(trial.inputs.user)

\* C15: for a payload cut short of what its fields declare, carried by a
\* data line right after the success marker, processMintLog returns null.
C15_TruncationRejected ==
  /\ outcome # Null
  /\ outcome.op = "processMintLog"
  /\ trial.layout = <<"M", "D">>
  /\ trial.keep < Len(BuildBuffer(trial.inputs))
  => outcome.value = Null

\* Line k of the trial's log sequence is the success marker and line k + 1
\* starts with the data prefix.
Paired(k) ==
  /\ k + 1 <= Len(trial.layout)
  /\ Logs(trial)[k] = programSuccessLine
  /\ StartsWith(Logs(trial)[k + 1], dataPrefix)

\* C16: processMintLog returns null for a log sequence in which no success
\* marker is immediately followed by a data-prefixed line, whether the
\* marker stands alone or a data-prefixed line occurs elsewhere.
C16_MarkerPairing ==
  /\ outcome # Null
  /\ outcome.op = "processMintLog"
  /\ \A k \in DOMAIN trial.layout : ~Paired(k)
  => outcome.value = Null

\* Null was returned for a marker and a data-prefixed line with another line
\* between them.
C16_ApartYieldsNull ==
  /\ outcome # Null
  /\ outcome.op = "processMintLog"
  /\ trial.layout = <<"M", "X", "D">>
  /\ StartsWith(Logs(trial)[3], dataPrefix)
  /\ outcome.value = Null

\* C17: a call of withConcurrency returns, also when there are more workers
\* than items and when there is no item: a worker beyond the items makes no
\* handler call and has left its loop from the start, and the call returns
\* only when no handler call is left and every item claimed has its result.
C17_PoolTerminates ==
  /\ <>(pc = "returned")
  /\ [](\A w \in DOMAIN workers : w > Len(batchSigs) => workers[w].state = "done")
  /\ [](pc = "returned" =>
          /\ \A w \in DOMAIN workers : workers[w].state = "done"
          /\ Len(workers) = concurrency
          /\ index = Len(batchSigs)
          /\ Len(results) = index)

\* A call with more workers than items has returned the one result.
C17_SurplusWorkerReturned ==
  /\ pc = "returned"
  /\ Len(batchSigs) = 1
  /\ concurrency > 1
  /\ Len(results) = 1

=============================================================================
